---- MODULE Spec2Model ----
(***************************************************************************)
(* go-verlib: versions with optional minor/patch, their ordering, the      *)
(* Increment family, constraints (operator + version), Satisfies,          *)
(* Overlaps, checkContradict and Constraints.Contradicts.                  *)
(*                                                                         *)
(* uint64 components are kept modulo Uint64Mod (MaxComp + 1 stands for     *)
(* 2^64), so that MaxComp + 1 wraps to 0 exactly as math.MaxUint64 + 1.    *)
(* Go strings are sequences of byte values; "" is << >>.                   *)
(* The optional fields minor and patch are *uint64: an address into a heap *)
(* of uint64 cells, Nil for the nil pointer.                               *)
(***************************************************************************)
EXTENDS Integers, Sequences, FiniteSets, TLC

VARIABLES
    heap,       \* allocated uint64 cells, address -> value
    vers,       \* the Version structs the client program holds
    snap,       \* what was observed on each of them when it was obtained
    calls,      \* the call that returned each of them: method and receiver
    strict,     \* what the last call of StrictString returned, and on which
    panicked,   \* the program panicked
    recovered,  \* the value of the panic, as a deferred recover() gets it
    a, b,       \* operands of the version comparisons
    cmp,        \* results of the comparison methods on (a, b)
    sat,        \* results of a.Satisfies(Constraint(op, b)), per operator
    c1, c2,     \* operands of the pairwise constraint operations
    rel,        \* results of Overlaps / checkContradict / Contradicts on (c1, c2)
    set,        \* receiver of Constraints.Contradicts
    additional, \* variadic additional sets of Constraints.Contradicts
    err,        \* error returned by Constraints.Contradicts
    text,       \* string given to the constraint parsers
    parsed      \* what the last call of a constraint parser returned

vars ==
    <<heap, vers, snap, calls, strict, panicked, recovered, a, b, cmp, sat, c1, c2, rel, set,
      additional, err, text, parsed>>

----------------------------------------------------------------------------
(* Bounds *)

MaxComp == 2          \* largest value of a uint64 component (stands for 2^64 - 1)
MaxVersions == 3      \* Version values a client run obtains
MaxPairComp == 1      \* largest minor/patch of the versions of a constraint pair
MaxSet == 2           \* length of the receiver of Contradicts
MaxAdditionalSets == 1 \* additional sets given to Contradicts
MaxAdditional == 1    \* length of an additional set

Uint64Mod == MaxComp + 1
Uint64 == 0 .. MaxComp

----------------------------------------------------------------------------
(* Strings: Go compares strings bytewise, lexicographically *)

EmptyString == << >>

RECURSIVE StrLess(_, _)
StrLess(s, t) ==
    IF t = << >> THEN FALSE
    ELSE IF s = << >> THEN TRUE
    ELSE IF Head(s) # Head(t) THEN Head(s) < Head(t)
    ELSE StrLess(Tail(s), Tail(t))

----------------------------------------------------------------------------
(* Version: the struct, its storage, and the value a reader observes *)

Nil == 0

\* Version{} : the zero value
ZeroVersion ==
    [major |-> 0, minor |-> Nil, patch |-> Nil,
     preRelease |-> EmptyString, buildMetadata |-> EmptyString]

\* new(uint64) / &local : a fresh cell holding x
new(h, x) == [heap |-> Append(h, x), ptr |-> Len(h) + 1]

\* What the accessors and String() can tell about struct s in heap h:
\* an optional component is << >> when absent and <<x>> when present.
Observe(h, s) ==
    [major |-> s.major,
     minor |-> IF s.minor = Nil THEN << >> ELSE <<h[s.minor]>>,
     patch |-> IF s.patch = Nil THEN << >> ELSE <<h[s.patch]>>,
     preRelease |-> s.preRelease,
     buildMetadata |-> s.buildMetadata]

\* A struct with private storage holding the observed value v
Materialize(v) ==
    LET h1 == IF v.minor = << >> THEN << >> ELSE <<v.minor[1]>>
        h2 == IF v.patch = << >> THEN h1 ELSE Append(h1, v.patch[1])
    IN  [heap |-> h2,
         ver |-> [major |-> v.major,
                  minor |-> IF v.minor = << >> THEN Nil ELSE 1,
                  patch |-> IF v.patch = << >> THEN Nil ELSE Len(h2),
                  preRelease |-> v.preRelease,
                  buildMetadata |-> v.buildMetadata],
         panicked |-> FALSE]

NewVersion(h, major, minor, patch) ==
    LET m == new(h, minor)
        p == new(m.heap, patch)
    IN  [heap |-> p.heap,
         ver |-> [major |-> major, minor |-> m.ptr, patch |-> p.ptr,
                  preRelease |-> EmptyString, buildMetadata |-> EmptyString],
         panicked |-> FALSE]

NewPreReleaseVersion(h, major, minor, patch, preRelease) ==
    LET m == new(h, minor)
        p == new(m.heap, patch)
    IN  [heap |-> p.heap,
         ver |-> [major |-> major, minor |-> m.ptr, patch |-> p.ptr,
                  preRelease |-> preRelease, buildMetadata |-> EmptyString],
         panicked |-> FALSE]

cloneShared(h, v) == [heap |-> h, ver |-> v, panicked |-> FALSE]

\* A copy that keeps the patch but not the minor
cloneWithoutMinor(h, v) ==
    LET p == IF v.patch # Nil THEN new(h, h[v.patch]) ELSE [heap |-> h, ptr |-> Nil]
    IN  [heap |-> p.heap,
         ver |-> [major |-> v.major, minor |-> Nil, patch |-> p.ptr,
                  preRelease |-> v.preRelease, buildMetadata |-> v.buildMetadata],
         panicked |-> FALSE]

clone(h, v) ==
    LET m == IF v.minor # Nil THEN new(h, h[v.minor]) ELSE [heap |-> h, ptr |-> Nil]
        p == IF v.patch # Nil THEN new(m.heap, m.heap[v.patch])
             ELSE [heap |-> m.heap, ptr |-> Nil]
    IN  [heap |-> p.heap,
         ver |-> [major |-> v.major, minor |-> m.ptr, patch |-> p.ptr,
                  preRelease |-> v.preRelease, buildMetadata |-> v.buildMetadata],
         panicked |-> FALSE]

SetPreRelease(h, v, preRelease) ==
    LET c == clone(h, v)
    IN  [c EXCEPT !.ver.preRelease = preRelease]

SetBuildMetadata(h, v, buildMetadata) ==
    LET c == clone(h, v)
    IN  [c EXCEPT !.ver.buildMetadata = buildMetadata]

IncrementBackfills(h, v) ==
    LET c == clone(h, v)
        nv == [c.ver EXCEPT !.preRelease = EmptyString, !.buildMetadata = EmptyString]
    IN  IF v.patch # Nil
        THEN LET n == new(c.heap, 0)
             IN  [heap |-> [n.heap EXCEPT ![n.ptr] = (n.heap[v.patch] + 1) % Uint64Mod],
                  ver |-> [nv EXCEPT !.patch = n.ptr], panicked |-> FALSE]
        ELSE IF v.minor # Nil
        THEN LET n == new(c.heap, 0)
                 p == new(n.heap, 0)
             IN  [heap |-> [p.heap EXCEPT ![n.ptr] = (p.heap[v.minor] + 1) % Uint64Mod],
                  ver |-> [nv EXCEPT !.minor = n.ptr, !.patch = p.ptr], panicked |-> FALSE]
        ELSE LET m == new(c.heap, 0)
                 p == new(m.heap, 0)
             IN  [heap |-> p.heap,
                  ver |-> [nv EXCEPT !.major = (nv.major + 1) % Uint64Mod,
                                     !.minor = m.ptr, !.patch = p.ptr],
                  panicked |-> FALSE]

Increment(h, v) ==
    LET c == clone(h, v)
        nv == [c.ver EXCEPT !.preRelease = EmptyString, !.buildMetadata = EmptyString]
    IN  IF v.patch # Nil
        THEN LET n == new(c.heap, 0)
             IN  [heap |-> [n.heap EXCEPT ![n.ptr] = (n.heap[v.patch] + 1) % Uint64Mod],
                  ver |-> [nv EXCEPT !.patch = n.ptr], panicked |-> FALSE]
        ELSE IF v.minor # Nil
        THEN LET n == new(c.heap, 0)
             IN  [heap |-> [n.heap EXCEPT ![n.ptr] = (n.heap[v.minor] + 1) % Uint64Mod],
                  ver |-> [nv EXCEPT !.minor = n.ptr], panicked |-> FALSE]
        ELSE [heap |-> c.heap,
              ver |-> [nv EXCEPT !.major = (nv.major + 1) % Uint64Mod],
              panicked |-> FALSE]

IncrementMajor(h, v) ==
    LET m == new(h, 0)
        p == new(m.heap, 0)
    IN  [heap |-> p.heap,
         ver |-> [major |-> (v.major + 1) % Uint64Mod, minor |-> m.ptr, patch |-> p.ptr,
                  preRelease |-> EmptyString, buildMetadata |-> EmptyString],
         panicked |-> FALSE]

IncrementMinorKeepsPatch(h, v) ==
    LET c == clone(h, v)
        m == IF c.ver.minor = Nil THEN new(c.heap, 0)
             ELSE [heap |-> c.heap, ptr |-> c.ver.minor]
    IN  [heap |-> [m.heap EXCEPT ![m.ptr] = (m.heap[m.ptr] + 1) % Uint64Mod],
         ver |-> [c.ver EXCEPT !.preRelease = EmptyString, !.buildMetadata = EmptyString,
                               !.minor = m.ptr],
         panicked |-> FALSE]

IncrementMinor(h, v) ==
    LET c == clone(h, v)
        p == new(c.heap, 0)
        m == IF c.ver.minor = Nil THEN new(p.heap, 0)
             ELSE [heap |-> p.heap, ptr |-> c.ver.minor]
    IN  [heap |-> [m.heap EXCEPT ![m.ptr] = (m.heap[m.ptr] + 1) % Uint64Mod],
         ver |-> [c.ver EXCEPT !.preRelease = EmptyString, !.buildMetadata = EmptyString,
                               !.patch = p.ptr, !.minor = m.ptr],
         panicked |-> FALSE]

IncrementPatchKeepsMinor(h, v) ==
    LET c == clone(h, v)
        p == IF c.ver.patch = Nil THEN new(c.heap, 0)
             ELSE [heap |-> c.heap, ptr |-> c.ver.patch]
    IN  [heap |-> [p.heap EXCEPT ![p.ptr] = (p.heap[p.ptr] + 1) % Uint64Mod],
         ver |-> [c.ver EXCEPT !.preRelease = EmptyString, !.buildMetadata = EmptyString,
                               !.patch = p.ptr],
         panicked |-> FALSE]

IncrementPatch(h, v) ==
    LET c == clone(h, v)
        m == IF c.ver.minor = Nil THEN new(c.heap, 0)
             ELSE [heap |-> c.heap, ptr |-> c.ver.minor]
        p == IF c.ver.patch = Nil THEN new(m.heap, 0)
             ELSE [heap |-> m.heap, ptr |-> c.ver.patch]
    IN  [heap |-> [p.heap EXCEPT ![p.ptr] = (p.heap[p.ptr] + 1) % Uint64Mod],
         ver |-> [c.ver EXCEPT !.preRelease = EmptyString, !.buildMetadata = EmptyString,
                               !.minor = m.ptr, !.patch = p.ptr],
         panicked |-> FALSE]

IncrementPessimisticKeepsMinor(h, v) ==
    LET c == clone(h, v)
        nv == [c.ver EXCEPT !.preRelease = EmptyString, !.buildMetadata = EmptyString]
    IN  IF nv.patch # Nil
        THEN LET h1 == [c.heap EXCEPT ![nv.patch] = 0]
             IN  IF nv.minor = Nil
                 THEN [heap |-> h1, ver |-> nv, panicked |-> TRUE]
                 ELSE [heap |-> [h1 EXCEPT ![nv.minor] = (h1[nv.minor] + 1) % Uint64Mod],
                       ver |-> nv, panicked |-> FALSE]
        ELSE [heap |-> c.heap,
              ver |-> [nv EXCEPT !.major = (nv.major + 1) % Uint64Mod],
              panicked |-> FALSE]

\* `*newVersion.minor++` with a nil minor is a nil pointer dereference: the
\* call panics after `*newVersion.patch = 0` and returns nothing.
IncrementPessimistic(h, v) ==
    LET c == clone(h, v)
        nv == [c.ver EXCEPT !.preRelease = EmptyString, !.buildMetadata = EmptyString]
    IN  IF nv.patch # Nil
        THEN LET h1 == [c.heap EXCEPT ![nv.patch] = 0]
             IN  IF nv.minor = Nil
                 THEN [heap |-> h1, ver |-> nv, panicked |-> TRUE]
                 ELSE [heap |-> [h1 EXCEPT ![nv.minor] = (h1[nv.minor] + 1) % Uint64Mod],
                       ver |-> nv, panicked |-> FALSE]
        ELSE IF nv.minor # Nil
        THEN LET n == new(c.heap, 0)
             IN  [heap |-> n.heap,
                  ver |-> [nv EXCEPT !.minor = n.ptr, !.major = (nv.major + 1) % Uint64Mod],
                  panicked |-> FALSE]
        ELSE [heap |-> c.heap,
              ver |-> [nv EXCEPT !.major = (nv.major + 1) % Uint64Mod],
              panicked |-> FALSE]

----------------------------------------------------------------------------
(* Accessors and ordering, on observed values *)

Major(v) == v.major
Minor(v) == IF v.minor = << >> THEN 0 ELSE v.minor[1]
Patch(v) == IF v.patch = << >> THEN 0 ELSE v.patch[1]

LessOrSame(v, other) ==
    IF Major(v) # Major(other) THEN Major(v) < Major(other)
    ELSE IF Minor(v) # Minor(other) THEN Minor(v) < Minor(other)
    ELSE IF Patch(v) # Patch(other) THEN Patch(v) < Patch(other)
    ELSE IF v.preRelease = EmptyString /\ other.preRelease # EmptyString THEN FALSE
    ELSE IF v.preRelease # EmptyString /\ other.preRelease = EmptyString THEN TRUE
    ELSE ~StrLess(other.preRelease, v.preRelease)

LessThenBuildMetadata(v, other) ==
    IF Major(v) # Major(other) THEN Major(v) < Major(other)
    ELSE IF Minor(v) # Minor(other) THEN Minor(v) < Minor(other)
    ELSE IF Patch(v) # Patch(other) THEN Patch(v) < Patch(other)
    ELSE IF v.preRelease = EmptyString /\ other.preRelease # EmptyString THEN FALSE
    ELSE IF v.preRelease # EmptyString /\ other.preRelease = EmptyString THEN TRUE
    ELSE IF v.preRelease # other.preRelease THEN StrLess(v.preRelease, other.preRelease)
    ELSE StrLess(v.buildMetadata, other.buildMetadata)

LessShorterLabelFirst(v, other) ==
    IF Major(v) # Major(other) THEN Major(v) < Major(other)
    ELSE IF Minor(v) # Minor(other) THEN Minor(v) < Minor(other)
    ELSE IF Patch(v) # Patch(other) THEN Patch(v) < Patch(other)
    ELSE IF v.preRelease = EmptyString /\ other.preRelease # EmptyString THEN FALSE
    ELSE IF v.preRelease # EmptyString /\ other.preRelease = EmptyString THEN TRUE
    ELSE IF Len(v.preRelease) # Len(other.preRelease)
        THEN Len(v.preRelease) < Len(other.preRelease)
    ELSE StrLess(v.preRelease, other.preRelease)

LessEmptyLabelFirst(v, other) ==
    IF Major(v) # Major(other) THEN Major(v) < Major(other)
    ELSE IF Minor(v) # Minor(other) THEN Minor(v) < Minor(other)
    ELSE IF Patch(v) # Patch(other) THEN Patch(v) < Patch(other)
    ELSE IF v.preRelease # EmptyString /\ other.preRelease = EmptyString THEN TRUE
    ELSE StrLess(v.preRelease, other.preRelease)

Less(v, other) ==
    IF Major(v) # Major(other) THEN Major(v) < Major(other)
    ELSE IF Minor(v) # Minor(other) THEN Minor(v) < Minor(other)
    ELSE IF Patch(v) # Patch(other) THEN Patch(v) < Patch(other)
    ELSE IF v.preRelease = EmptyString /\ other.preRelease # EmptyString THEN FALSE
    ELSE IF v.preRelease # EmptyString /\ other.preRelease = EmptyString THEN TRUE
    ELSE StrLess(v.preRelease, other.preRelease)

Greater(v, other) == Less(other, v) /\ ~Less(v, other)

EqualFieldwise(v, other) ==
    /\ v.major = other.major /\ v.minor = other.minor /\ v.patch = other.patch
    /\ v.preRelease = other.preRelease

Equal(v, other) == ~Less(v, other) /\ ~Less(other, v)

GreaterEqual(v, other) == ~Less(v, other)

LessEqual(v, other) == ~Greater(v, other)

\* The receiver of a method call is a copy of the struct; the methods below
\* only ever write to cells their clone allocated, so on observed values
\* c.version.Increment() is the method run on private storage.
NewVersionValue(major, minor, patch) ==
    LET r == NewVersion(<< >>, major, minor, patch)
    IN  Observe(r.heap, r.ver)

IncrementValue(v) ==
    LET r == Increment(Materialize(v).heap, Materialize(v).ver)
    IN  Observe(r.heap, r.ver)

IncrementPessimisticValue(v) ==
    LET r == IncrementPessimistic(Materialize(v).heap, Materialize(v).ver)
    IN  Observe(r.heap, r.ver)

----------------------------------------------------------------------------
(* Rendering *)

\* strconv.FormatUint(n, 10)
RECURSIVE FormatUint(_)
FormatUint(n) ==
    IF n < 10 THEN <<48 + n>> ELSE FormatUint(n \div 10) \o <<48 + (n % 10)>>

\* Version.String(): the lenient rendering
String(v) ==
    LET numbers ==
            FormatUint(v.major) \o
            (IF v.minor # << >>
             THEN <<46>> \o FormatUint(v.minor[1]) \o
                  (IF v.patch # << >> THEN <<46>> \o FormatUint(v.patch[1]) ELSE << >>)
             ELSE << >>)
        pre == IF v.preRelease # EmptyString THEN <<45>> \o v.preRelease ELSE << >>
        build == IF v.buildMetadata # EmptyString THEN <<43>> \o v.buildMetadata ELSE << >>
    IN  numbers \o pre \o build

----------------------------------------------------------------------------
(* Operators and constraints *)

EQ == "="
NE == "!="
GT == ">"
GE == ">="
LT == "<"
LE == "<="
GEPessimistic == "~>"

Operators == {EQ, NE, GT, GE, LT, LE, GEPessimistic}

NewConstraint(operator, version) == [operator |-> operator, version |-> version]

Satisfies(v, c) ==
    CASE c.operator = EQ -> Equal(v, c.version)
      [] c.operator = NE -> ~Equal(v, c.version)
      [] c.operator = GT -> Greater(v, c.version)
      [] c.operator = GE -> GreaterEqual(v, c.version)
      [] c.operator = LT -> Less(v, c.version)
      [] c.operator = LE -> LessEqual(v, c.version)
      [] c.operator = GEPessimistic ->
            GreaterEqual(v, c.version) /\ Less(v, IncrementPessimisticValue(c.version))
      [] OTHER -> FALSE

\* A Go switch takes the first case that holds.
OverlapsInclusiveLower(c, d) ==
    IF c.operator = EQ THEN Satisfies(c.version, d)
    ELSE IF c.operator = NE THEN ~Satisfies(c.version, d)
    ELSE IF c.operator = GT THEN LessEqual(c.version, d.version)
    ELSE IF c.operator = GE /\ d.operator = GEPessimistic
        THEN GreaterEqual(c.version, d.version) /\ Less(c.version, IncrementValue(d.version))
    ELSE IF d.operator = GE /\ c.operator = GEPessimistic
        THEN GreaterEqual(d.version, c.version) /\ Less(d.version, IncrementValue(c.version))
    ELSE IF c.operator = GE THEN LessEqual(c.version, d.version)
    ELSE IF c.operator = LT /\ d.operator = LE THEN Less(d.version, c.version)
    ELSE IF c.operator = LE /\ d.operator = LT THEN Less(c.version, d.version)
    ELSE IF c.operator = LT /\ d.operator = GEPessimistic
        THEN Less(d.version, c.version) \/ Equal(d.version, c.version)
    ELSE IF d.operator = LT /\ c.operator = GEPessimistic
        THEN Less(c.version, d.version) \/ Equal(c.version, d.version)
    ELSE IF c.operator = LT THEN GreaterEqual(c.version, d.version)
    ELSE IF c.operator = LE THEN Greater(c.version, d.version)
    ELSE IF c.operator = GEPessimistic
        THEN GreaterEqual(d.version, c.version) /\ Less(d.version, IncrementValue(c.version))
    ELSE FALSE

\* A `>` receiver compared the other way round
OverlapsLowerBoundReversed(c, d) ==
    IF c.operator = EQ THEN Satisfies(c.version, d)
    ELSE IF c.operator = NE THEN ~Satisfies(c.version, d)
    ELSE IF c.operator = GT THEN LessEqual(d.version, c.version)
    ELSE IF c.operator = GE /\ d.operator = GEPessimistic
        THEN GreaterEqual(c.version, d.version) /\ Less(c.version, IncrementValue(d.version))
    ELSE IF d.operator = GE /\ c.operator = GEPessimistic
        THEN GreaterEqual(d.version, c.version) /\ Less(d.version, IncrementValue(c.version))
    ELSE IF c.operator = GE THEN Less(c.version, d.version)
    ELSE IF c.operator = LT /\ d.operator = LE THEN Less(d.version, c.version)
    ELSE IF c.operator = LE /\ d.operator = LT THEN Less(c.version, d.version)
    ELSE IF c.operator = LT /\ d.operator = GEPessimistic
        THEN Less(d.version, c.version) \/ Equal(d.version, c.version)
    ELSE IF d.operator = LT /\ c.operator = GEPessimistic
        THEN Less(c.version, d.version) \/ Equal(c.version, d.version)
    ELSE IF c.operator = LT THEN GreaterEqual(c.version, d.version)
    ELSE IF c.operator = LE THEN Greater(c.version, d.version)
    ELSE IF c.operator = GEPessimistic
        THEN GreaterEqual(d.version, c.version) /\ Less(d.version, IncrementValue(c.version))
    ELSE FALSE

Overlaps(c, d) ==
    IF c.operator = EQ THEN Satisfies(c.version, d)
    ELSE IF c.operator = NE THEN ~Satisfies(c.version, d)
    ELSE IF c.operator = GT THEN LessEqual(c.version, d.version)
    ELSE IF c.operator = GE /\ d.operator = GEPessimistic
        THEN GreaterEqual(c.version, d.version) /\ Less(c.version, IncrementValue(d.version))
    ELSE IF d.operator = GE /\ c.operator = GEPessimistic
        THEN GreaterEqual(d.version, c.version) /\ Less(d.version, IncrementValue(c.version))
    ELSE IF c.operator = GE THEN Less(c.version, d.version)
    ELSE IF c.operator = LT /\ d.operator = LE THEN Less(d.version, c.version)
    ELSE IF c.operator = LE /\ d.operator = LT THEN Less(c.version, d.version)
    ELSE IF c.operator = LT /\ d.operator = GEPessimistic
        THEN Less(d.version, c.version) \/ Equal(d.version, c.version)
    ELSE IF d.operator = LT /\ c.operator = GEPessimistic
        THEN Less(c.version, d.version) \/ Equal(c.version, d.version)
    ELSE IF c.operator = LT THEN GreaterEqual(c.version, d.version)
    ELSE IF c.operator = LE THEN Greater(c.version, d.version)
    ELSE IF c.operator = GEPessimistic
        THEN GreaterEqual(d.version, c.version) /\ Less(d.version, IncrementValue(c.version))
    ELSE FALSE

checkContradictByOverlap(x, y) ==
    IF x.operator = GT /\ y.operator = GE /\ LessEqual(x.version, y.version) THEN FALSE
    ELSE IF x.operator = GE /\ y.operator = GT /\ Greater(x.version, y.version) THEN FALSE
    ELSE IF x.operator = NE /\ y.operator = NE THEN Equal(x.version, y.version)
    ELSE IF x.operator = NE THEN Satisfies(x.version, y)
    ELSE IF y.operator = NE THEN Satisfies(y.version, x)
    ELSE ~Overlaps(x, y)

\* Two bounds on the same side taken as never contradictory
checkContradictSameSide(x, y) ==
    IF x.operator = y.operator /\ Equal(x.version, y.version) THEN FALSE
    ELSE IF x.operator = y.operator /\ x.operator \in {GT, GE, LT, LE} THEN FALSE
    ELSE IF x.operator = GT /\ y.operator = GE /\ LessEqual(x.version, y.version) THEN FALSE
    ELSE IF x.operator = GE /\ y.operator = GT /\ Greater(x.version, y.version) THEN FALSE
    ELSE IF x.operator = NE /\ y.operator = NE THEN Equal(x.version, y.version)
    ELSE IF x.operator = NE THEN Satisfies(x.version, y)
    ELSE IF y.operator = NE THEN Satisfies(y.version, x)
    ELSE ~Overlaps(x, y)

\* A `!=` constraint in second place left to the general case
checkContradictNotEqualFirstOnly(x, y) ==
    IF x.operator = y.operator /\ Equal(x.version, y.version) THEN FALSE
    ELSE IF x.operator = GT /\ y.operator = GE /\ LessEqual(x.version, y.version) THEN FALSE
    ELSE IF x.operator = GE /\ y.operator = GT /\ Greater(x.version, y.version) THEN FALSE
    ELSE IF x.operator = NE /\ y.operator = NE THEN Equal(x.version, y.version)
    ELSE IF x.operator = NE THEN Satisfies(x.version, y)
    ELSE ~Overlaps(x, y)

\* The version of the other constraint checked against the `!=` constraint
checkContradictOtherAgainstExclusion(x, y) ==
    IF x.operator = y.operator /\ Equal(x.version, y.version) THEN FALSE
    ELSE IF x.operator = GT /\ y.operator = GE /\ LessEqual(x.version, y.version) THEN FALSE
    ELSE IF x.operator = GE /\ y.operator = GT /\ Greater(x.version, y.version) THEN FALSE
    ELSE IF x.operator = NE /\ y.operator = NE THEN Equal(x.version, y.version)
    ELSE IF x.operator = NE THEN Satisfies(y.version, x)
    ELSE IF y.operator = NE THEN Satisfies(x.version, y)
    ELSE ~Overlaps(x, y)

\* The case of two `!=` constraints tried before the case of duplicates
checkContradictExclusionsFirst(x, y) ==
    IF x.operator = NE /\ y.operator = NE THEN Equal(x.version, y.version)
    ELSE IF x.operator = y.operator /\ Equal(x.version, y.version) THEN FALSE
    ELSE IF x.operator = GT /\ y.operator = GE /\ LessEqual(x.version, y.version) THEN FALSE
    ELSE IF x.operator = GE /\ y.operator = GT /\ Greater(x.version, y.version) THEN FALSE
    ELSE IF x.operator = NE THEN Satisfies(x.version, y)
    ELSE IF y.operator = NE THEN Satisfies(y.version, x)
    ELSE ~Overlaps(x, y)

checkContradict(x, y) ==
    IF x.operator = y.operator /\ Equal(x.version, y.version) THEN FALSE
    ELSE IF x.operator = GT /\ y.operator = GE /\ LessEqual(x.version, y.version) THEN FALSE
    ELSE IF x.operator = GE /\ y.operator = GT /\ Greater(x.version, y.version) THEN FALSE
    ELSE IF x.operator = NE /\ y.operator = NE THEN Equal(x.version, y.version)
    ELSE IF x.operator = NE THEN Satisfies(x.version, y)
    ELSE IF y.operator = NE THEN Satisfies(y.version, x)
    ELSE ~Overlaps(x, y)

----------------------------------------------------------------------------
(* Errors: nil, a ContradictionErr, or the result of errors.Join *)

NilError == [kind |-> "nil"]

ContradictionErr(x, y) == [kind |-> "ContradictionErr", c1 |-> x, c2 |-> y]

\* errors.Join(e1, e2): nil arguments are dropped, nil if none is left,
\* otherwise one error wrapping the remaining ones in argument order.
Join(e1, e2) ==
    LET errs == SelectSeq(<<e1, e2>>, LAMBDA e : e # NilError)
    IN  IF errs = << >> THEN NilError ELSE [kind |-> "joinError", errs |-> errs]

\* The ContradictionErr values in the error tree, in the depth-first order
\* in which errors.As / errors.Is walk Unwrap() []error.
RECURSIVE Unwrapped(_)
Unwrapped(e) ==
    IF e.kind = "nil" THEN << >>
    ELSE IF e.kind = "ContradictionErr" THEN <<e>>
    ELSE IF Len(e.errs) = 1 THEN Unwrapped(e.errs[1])
    ELSE Unwrapped(e.errs[1]) \o Unwrapped(e.errs[2])

\* errors.As(err, &ce) with ce a ContradictionErr: the first one found
As(e) == IF Unwrapped(e) = << >> THEN NilError ELSE Unwrapped(e)[1]

RECURSIVE Flatten(_)
Flatten(sets) == IF sets = << >> THEN << >> ELSE Head(sets) \o Flatten(Tail(sets))

RECURSIVE ContradictsFromForward(_, _, _, _)
ContradictsFromForward(all, i, j, e) ==
    IF i > Len(all) THEN e
    ELSE IF j > Len(all) THEN ContradictsFromForward(all, i + 1, i + 2, e)
    ELSE ContradictsFromForward(all, i, j + 1,
            IF checkContradict(all[i], all[j])
            THEN Join(e, ContradictionErr(all[i], all[j]))
            ELSE e)

\* The double loop of Contradicts from (i, j) on, Go indices shifted to 1..n
RECURSIVE ContradictsFrom(_, _, _, _)
ContradictsFrom(all, i, j, e) ==
    IF i > Len(all) THEN e
    ELSE IF j > Len(all) THEN ContradictsFrom(all, i + 1, i + 2, e)
    ELSE ContradictsFrom(all, i, j + 1,
            IF checkContradict(all[i], all[j]) \/ checkContradict(all[j], all[i])
            THEN Join(e, ContradictionErr(all[i], all[j]))
            ELSE e)

ContradictsFirstOnly(c, more) ==
    LET all == c \o Flatten(more)
        hits == Unwrapped(ContradictsFrom(all, 1, 2, NilError))
    IN  IF hits = << >> THEN NilError ELSE hits[1]

Contradicts(c, more) == ContradictsFrom(c \o Flatten(more), 1, 2, NilError)

----------------------------------------------------------------------------
(* Inputs *)

\* Pre-release labels and build metadata given to the operations:
\* "", "alpha.10", "alpha.2" and "", "7".
PreReleaseLabels ==
    {<< >>, <<97, 108, 112, 104, 97, 46, 49, 48>>, <<97, 108, 112, 104, 97, 46, 50>>}
BuildLabels == {<< >>, <<55>>}

\* The observable values of the versions the API can produce: a present
\* patch comes with a present minor (see PatchImpliesMinor).
Optional(S) == {<< >>} \cup {<<x>> : x \in S}

VersionValues(majors, comps, pres, builds) ==
    {v \in [major : majors, minor : Optional(comps), patch : Optional(comps),
            preRelease : pres, buildMetadata : builds] :
        v.patch # << >> => v.minor # << >>}

None == [kind |-> "none"]

IdleAPI ==
    /\ heap = << >> /\ vers = << >> /\ snap = << >> /\ calls = << >>
    /\ strict = None /\ panicked = FALSE /\ recovered = None
IdleOrder == a = None /\ b = None /\ cmp = None /\ sat = None
IdlePair == c1 = None /\ c2 = None /\ rel = None
IdleSet == set = << >> /\ additional = << >> /\ err = None
IdleParse == text = << >> /\ parsed = None

apiVars == <<heap, vers, snap, calls, strict, panicked, recovered>>
orderVars == <<a, b, cmp, sat>>
pairVars == <<c1, c2, rel>>
setVars == <<set, additional, err>>
parseVars == <<text, parsed>>

----------------------------------------------------------------------------
(* Comparing two versions *)

OrderVersions == VersionValues(Uint64, Uint64, PreReleaseLabels, BuildLabels)

InitOrder ==
    /\ a \in OrderVersions /\ b \in OrderVersions
    /\ cmp = None /\ sat = None
    /\ IdleAPI /\ IdlePair /\ IdleSet /\ IdleParse

Compare ==
    /\ cmp = None
    /\ cmp' = [kind |-> "cmp", less |-> Less(a, b), greater |-> Greater(a, b),
               equal |-> Equal(a, b), greaterEqual |-> GreaterEqual(a, b),
               lessEqual |-> LessEqual(a, b)]
    /\ UNCHANGED <<a, b, sat, apiVars, pairVars, setVars, parseVars>>

CheckSatisfies ==
    /\ sat = None
    /\ sat' = [kind |-> "sat",
               by |-> [op \in Operators |-> Satisfies(a, NewConstraint(op, b))]]
    /\ UNCHANGED <<a, b, cmp, apiVars, pairVars, setVars, parseVars>>

NextOrder == Compare \/ CheckSatisfies

SpecOrder == InitOrder /\ [][NextOrder]_vars

----------------------------------------------------------------------------
(* A pair of constraints *)

PairVersions ==
    VersionValues(0 .. MaxPairComp, 0 .. MaxPairComp, {<< >>, <<98>>}, {EmptyString})

PairConstraints == {NewConstraint(op, v) : op \in Operators, v \in PairVersions}

InitPair ==
    /\ c1 \in PairConstraints /\ c2 \in PairConstraints
    /\ rel = None
    /\ IdleAPI /\ IdleOrder /\ IdleSet /\ IdleParse

CheckPair ==
    /\ rel = None
    /\ rel' = [kind |-> "rel",
               overlaps |-> Overlaps(c1, c2),
               overlapsBack |-> Overlaps(c2, c1),
               contradict |-> checkContradict(c1, c2),
               contradictBack |-> checkContradict(c2, c1),
               err |-> Contradicts(<<c1, c2>>, << >>),
               errAcross |-> Contradicts(<<c1, c2>>, <<(<<c2, c1>>)>>)]
    /\ UNCHANGED <<c1, c2, apiVars, orderVars, setVars, parseVars>>

NextPair == CheckPair

SpecPair == InitPair /\ [][NextPair]_vars

----------------------------------------------------------------------------
(* Claims on the ordering and on Satisfies (SpecOrder) *)

\* C4: for every pair of versions exactly one of a.Less(b), a.Equal(b),
\* a.Greater(b) is true.
ExactlyOneOfLessEqualGreater ==
    cmp # None =>
        Cardinality({r \in {"less", "equal", "greater"} : cmp[r]}) = 1

\* C4 witness: versions that differ in the presence of minor and patch and
\* in their build metadata have been compared, and are Equal.
ComparedAcrossPresence ==
    /\ cmp # None /\ cmp.equal
    /\ a.minor = << >> /\ b.patch # << >> /\ a.preRelease # EmptyString
    /\ a.buildMetadata # b.buildMetadata

\* C7: a.Satisfies(Constraint(>=, a)) is true and a.Satisfies(Constraint(>, a))
\* is false, for every version a.
SatisfiesOwnLowerBound ==
    (sat # None /\ a = b) => (sat.by[GE] /\ ~sat.by[GT])

\* C7 witness: a version with a pre-release was checked against itself.
CheckedAgainstItself ==
    sat # None /\ a = b /\ a.preRelease # EmptyString /\ sat.by[GE]

AgreesLeftOfRightmost(v, c) ==
    IF c.patch # << >> THEN Major(v) = Major(c) /\ Minor(v) = Minor(c)
    ELSE IF c.minor # << >> THEN Major(v) = Major(c)
    ELSE TRUE

\* C8: a version a that satisfies Constraint(~>, b) is >= b and agrees with
\* b on every component to the left of b's rightmost present component.
PessimisticOnlyRightmostAdvances ==
    (sat # None /\ sat.by[GEPessimistic]) =>
        (GreaterEqual(a, b) /\ AgreesLeftOfRightmost(a, b))

\* C9: every version satisfies the pessimistic constraint built on itself,
\* over the whole range of the unsigned components.
SatisfiesOwnPessimistic ==
    (sat # None /\ a = b) => sat.by[GEPessimistic]

\* C13: Less is a strict order: a.Less(a) is never true, and a.Less(b) with
\* b.Less(c) implies a.Less(c), minor and patch present or not, with or
\* without pre-release labels.
LessIsStrictOrder ==
    cmp # None =>
        /\ a = b => ~cmp.less
        /\ cmp.less => \A c \in OrderVersions : Less(b, c) => Less(a, c)

\* C13 witness: a chain a < b < c decided by the pre-release labels alone,
\* between versions that differ in the presence of minor and patch.
ChainThroughLabels ==
    /\ cmp # None /\ cmp.less
    /\ a.minor = << >> /\ b.patch # << >>
    /\ a.preRelease # EmptyString /\ b.preRelease # EmptyString
    /\ \E c \in OrderVersions :
          Less(b, c) /\ c.preRelease = EmptyString /\ Major(c) = Major(a)
            /\ Minor(c) = 0 /\ Patch(c) = 0 /\ c.patch = << >>

\* (major, minor, patch) with an absent minor or patch read as 0
Triple(v) ==
    <<v.major,
      IF v.minor = << >> THEN 0 ELSE v.minor[1],
      IF v.patch = << >> THEN 0 ELSE v.patch[1]>>

\* s comes before t: at the first position where they differ s has the
\* smaller element, or s ends there and t does not
Before(s, t) ==
    \E k \in 1 .. Len(t) :
        /\ \A i \in 1 .. k - 1 : i <= Len(s) /\ s[i] = t[i]
        /\ k > Len(s) \/ (k <= Len(s) /\ s[k] < t[k])

\* C14: a.Less(b) is the lexicographic comparison of (major, minor or 0,
\* patch or 0); when these are equal a version with a pre-release is Less
\* than one without and never the reverse, and two pre-releases are ordered
\* by the comparison of the labels as whole strings.
LessIsLexicographicThenLabel ==
    cmp # None =>
        (cmp.less <=>
            IF Triple(a) # Triple(b) THEN Before(Triple(a), Triple(b))
            ELSE IF a.preRelease = EmptyString THEN FALSE
            ELSE IF b.preRelease = EmptyString THEN TRUE
            ELSE Before(a.preRelease, b.preRelease))

\* C14 witness: with equal components, "alpha.10" was found Less than
\* "alpha.2".
AlphaTenBeforeAlphaTwo ==
    /\ cmp # None /\ cmp.less /\ Triple(a) = Triple(b)
    /\ a.minor = << >> /\ b.minor # << >>
    /\ a.preRelease = <<97, 108, 112, 104, 97, 46, 49, 48>>
    /\ b.preRelease = <<97, 108, 112, 104, 97, 46, 50>>

----------------------------------------------------------------------------
(* Claims on a pair of constraints (SpecPair) *)

\* Every version there is, up to what Satisfies can tell apart for the
\* constraints of PairConstraints: all component values, and a pre-release
\* label below, at and above the label "b" those constraints use ("a", "b",
\* "c") or none.  Satisfies reads minor and patch through Minor() and
\* Patch(), so their presence makes no difference.
AllVersions ==
    [major : Uint64, minor : {<<x>> : x \in Uint64}, patch : {<<x>> : x \in Uint64},
     preRelease : {<< >>, <<97>>, <<98>>, <<99>>}, buildMetadata : {EmptyString}]

Satisfiers == [c \in PairConstraints |-> {v \in AllVersions : Satisfies(v, c)}]

JointlySatisfiable(x, y) == Satisfiers[x] \cap Satisfiers[y] # {}

Reported == rel.err # NilError

\* C1: Contradicts reports a pair of the set if and only if no version
\* satisfies both of its constraints.
ReportedIffUnsatisfiable ==
    rel # None => (Reported <=> ~JointlySatisfiable(c1, c2))

\* C2: c1.Overlaps(c2) is true if and only if some version satisfies both
\* c1 and c2.
OverlapsIffJointlySatisfiable ==
    rel # None => (rel.overlaps <=> JointlySatisfiable(c1, c2))

LowerAndUpper(x, y) == x.operator = GE /\ y.operator = LT

\* C10: a pair made of `>= a` and `< b`, in either order, is reported by
\* Contradicts if and only if b is less than or equal to a.
LowerUpperReportedIffUpperNotAbove ==
    /\ (rel # None /\ LowerAndUpper(c1, c2)) =>
            (Reported <=> LessEqual(c2.version, c1.version))
    /\ (rel # None /\ LowerAndUpper(c2, c1)) =>
            (Reported <=> LessEqual(c1.version, c2.version))

\* C10 witness: `< b` followed by `>= a` with b Equal to a was reported.
UpperMeetsLowerReported ==
    /\ rel # None /\ LowerAndUpper(c2, c1)
    /\ Equal(c1.version, c2.version) /\ Reported

Duplicates(x, y) == x.operator = y.operator /\ Equal(x.version, y.version)

\* C12: two constraints with the same operator and Equal versions are never
\* reported by Contradicts, whichever of the seven operators they carry, and
\* a receiver and an additional set made only of such duplicates yield nil.
DuplicatesNeverReported ==
    (rel # None /\ Duplicates(c1, c2)) =>
        /\ ~rel.contradict /\ ~rel.contradictBack
        /\ rel.err = NilError
        /\ rel.errAcross = NilError

\* C12 witness: `~> 1` and `~> 1.0.0`, duplicates that are not the same
\* value, were given to Contradicts and nothing was reported.
PessimisticDuplicatesPass ==
    /\ rel # None /\ Duplicates(c1, c2)
    /\ c1.operator = GEPessimistic
    /\ c1.version.minor = << >> /\ c2.version.patch # << >>
    /\ rel.errAcross = NilError

SameOperatorOtherVersion(x, y) ==
    x.operator = y.operator /\ x.operator # NE /\ ~Equal(x.version, y.version)

\* C23: two constraints with the same operator among =, >, >=, <, <= and ~>
\* whose versions are not Equal are reported by Contradicts as
\* contradictory, whichever of the two comes first.
SameOperatorOtherVersionReported ==
    (rel # None /\ SameOperatorOtherVersion(c1, c2)) =>
        /\ Reported
        /\ rel.contradict \/ rel.contradictBack

\* C23 witness: `> a` followed by `> b` with a Less than b was reported,
\* on the strength of the second argument order alone.
TwoLowerBoundsReported ==
    /\ rel # None /\ c1.operator = GT /\ c2.operator = GT
    /\ Less(c1.version, c2.version)
    /\ ~rel.contradict /\ rel.contradictBack /\ Reported


ExclusionAndOther(x, y) == x.operator = NE /\ y.operator # NE

\* C24: a pair made of `!= a` and a constraint c with another operator is
\* reported by Contradicts if and only if a satisfies c, whichever of the
\* two comes first in the set.
ExclusionReportedIffExcludedSatisfies ==
    /\ (rel # None /\ ExclusionAndOther(c1, c2)) =>
            (Reported <=> Satisfies(c1.version, c2))
    /\ (rel # None /\ ExclusionAndOther(c2, c1)) =>
            (Reported <=> Satisfies(c2.version, c1))

\* C24 witness: `> c` followed by `!= a` with a Greater than c was reported,
\* and `<= c` followed by `!= a` with a Greater than c was not.
LowerBoundThenExclusionReported ==
    /\ rel # None /\ ExclusionAndOther(c2, c1)
    /\ c1.operator = GT /\ Greater(c2.version, c1.version)
    /\ Reported
    /\ ~Contradicts(<<NewConstraint(LE, c1.version), c2>>, << >>) # NilError


\* C25 as stated: for a pair made of a `!=` constraint and a constraint with
\* another operator, checkContradict is true, in either argument order, if
\* and only if the version of the other constraint satisfies the `!=`
\* constraint.
ContradictIffOtherSatisfiesExclusion ==
    (rel # None /\ ExclusionAndOther(c1, c2)) =>
        /\ rel.contradict <=> Satisfies(c2.version, c1)
        /\ rel.contradictBack <=> Satisfies(c2.version, c1)

\* C25 amended: for a pair made of a `!=` constraint and a constraint with
\* another operator, checkContradict is true, in either argument order, if
\* and only if the version of the `!=` constraint satisfies the other
\* constraint.
ContradictIffExcludedSatisfiesOther ==
    (rel # None /\ ExclusionAndOther(c1, c2)) =>
        /\ rel.contradict <=> Satisfies(c1.version, c2)
        /\ rel.contradictBack <=> Satisfies(c1.version, c2)

\* C25 witness: `!= a` and `= a` were checked and contradict in both
\* argument orders, and `!= a` and `= b` with b not Equal to a do not.
ExclusionOfTheOnlyVersion ==
    /\ rel # None /\ ExclusionAndOther(c1, c2)
    /\ c2.operator = EQ /\ Equal(c1.version, c2.version)
    /\ rel.contradict /\ rel.contradictBack
    /\ \E v \in PairVersions :
          /\ ~Equal(v, c1.version)
          /\ ~checkContradict(c1, NewConstraint(EQ, v))


TwoExclusions(x, y) == x.operator = NE /\ y.operator = NE

\* C26 as stated: for a pair of two `!=` constraints checkContradict, and
\* hence Contradicts, reports a contradiction if and only if both exclude
\* the same (Equal) version.
ExclusionsContradictIffEqual ==
    (rel # None /\ TwoExclusions(c1, c2)) =>
        /\ rel.contradict <=> Equal(c1.version, c2.version)
        /\ Reported <=> Equal(c1.version, c2.version)

\* C26 amended: for a pair of two `!=` constraints checkContradict is false
\* in both argument orders and Contradicts reports nothing, whether the two
\* exclude the same version or not.
ExclusionsNeverContradict ==
    (rel # None /\ TwoExclusions(c1, c2)) =>
        /\ ~rel.contradict /\ ~rel.contradictBack
        /\ ~Reported

\* C26 witness: two `!=` constraints on Equal versions that differ in the
\* presence of minor and patch were checked and nothing was reported.
SameVersionExcludedTwice ==
    /\ rel # None /\ TwoExclusions(c1, c2)
    /\ Equal(c1.version, c2.version)
    /\ c1.version.minor = << >> /\ c2.version.patch # << >>
    /\ ~rel.contradict /\ ~Reported


LowerBounds(x, y) == x.operator = GT /\ y.operator = GE

\* C27: a pair made of `> a` and `>= b` with a less than or equal to b is
\* not contradictory for checkContradict, whichever of the two is passed
\* first, and Contradicts does not report it.
LowerBoundsNotContradictory ==
    (rel # None /\ LowerBounds(c1, c2) /\ LessEqual(c1.version, c2.version)) =>
        /\ ~rel.contradict /\ ~rel.contradictBack
        /\ ~Reported


\* C28 as stated: when c1 has operator `>`, c1.Overlaps(c2) is true if and
\* only if the version of c2 is less than or equal to the version of c1,
\* for every operator of c2.
LowerBoundOverlapsIffOtherNotAbove ==
    (rel # None /\ c1.operator = GT) =>
        (rel.overlaps <=> LessEqual(c2.version, c1.version))

\* C28 amended: when c1 has operator `>`, c1.Overlaps(c2) is true if and
\* only if the version of c1 is less than or equal to the version of c2,
\* for every operator of c2.
LowerBoundOverlapsIffOtherNotBelow ==
    (rel # None /\ c1.operator = GT) =>
        (rel.overlaps <=> LessEqual(c1.version, c2.version))

\* C28 witness: `> a` was asked whether it overlaps `> b` with b Less than
\* a, and the answer was no.
HigherLowerBoundAsked ==
    /\ rel # None /\ c1.operator = GT /\ c2.operator = GT
    /\ Less(c2.version, c1.version)
    /\ ~rel.overlaps


\* C29: for a pair of constraints in which one has operator `=`, Overlaps,
\* called with the pair in either argument order, is true if and only if
\* the version of the `=` constraint satisfies the other constraint.
ExactOverlapsIffItSatisfies ==
    (rel # None /\ c1.operator = EQ) =>
        /\ rel.overlaps <=> Satisfies(c1.version, c2)
        /\ rel.overlapsBack <=> Satisfies(c1.version, c2)


----------------------------------------------------------------------------
(* Versions carrying build metadata, compared and put in constraints        *)
(* (SpecBuild)                                                              *)

BuildVersions ==
    VersionValues(0 .. MaxPairComp, 0 .. MaxPairComp, {<< >>, <<98>>}, BuildLabels)

OperatorPairs == Operators \X Operators

InitBuild ==
    /\ a \in BuildVersions /\ b \in BuildVersions
    /\ cmp = None /\ sat = None
    /\ IdleAPI /\ IdlePair /\ IdleSet /\ IdleParse

\* For every pair of operators: Constraint(op1, a).Overlaps(Constraint(op2, b))
\* and whether Contradicts reports the pair.
CheckConstraints ==
    /\ rel = None
    /\ rel' = [kind |-> "ops",
               overlaps |-> [p \in OperatorPairs |->
                   Overlaps(NewConstraint(p[1], a), NewConstraint(p[2], b))],
               reported |-> [p \in OperatorPairs |->
                   Contradicts(<<NewConstraint(p[1], a), NewConstraint(p[2], b)>>, << >>)
                       # NilError]]
    /\ UNCHANGED <<c1, c2, apiVars, orderVars, setVars, parseVars>>

NextBuild == Compare \/ CheckSatisfies \/ CheckConstraints

SpecBuild == InitBuild /\ [][NextBuild]_vars

\* C15: changing only the build metadata of the versions involved changes
\* none of the results of Less, Equal, Greater, GreaterEqual, LessEqual,
\* Satisfies and Overlaps, nor whether Contradicts reports the pair: every
\* result is the one obtained on the same versions without build metadata,
\* so all versions that differ in build metadata only give the same results.
BuildMetadataNeverMatters ==
        LET v == [a EXCEPT !.buildMetadata = EmptyString]
            w == [b EXCEPT !.buildMetadata = EmptyString]
        IN  /\ cmp # None =>
                /\ cmp.less = Less(v, w) /\ cmp.greater = Greater(v, w)
                /\ cmp.equal = Equal(v, w)
                /\ cmp.greaterEqual = GreaterEqual(v, w)
                /\ cmp.lessEqual = LessEqual(v, w)
            /\ sat # None =>
                \A op \in Operators : sat.by[op] = Satisfies(v, NewConstraint(op, w))
            /\ rel # None =>
                \A p \in OperatorPairs :
                    LET x1 == NewConstraint(p[1], v)
                        x2 == NewConstraint(p[2], w)
                    IN  /\ rel.overlaps[p] = Overlaps(x1, x2)
                        /\ rel.reported[p] = (Contradicts(<<x1, x2>>, << >>) # NilError)

\* C15 witness: two versions that differ in their build metadata only were
\* compared, checked and put in constraints: they are Equal, and `= a` with
\* `= b` overlap and are not reported.
ComparedAcrossBuildMetadata ==
    /\ cmp # None /\ sat # None /\ rel # None
    /\ a.buildMetadata # b.buildMetadata
    /\ [a EXCEPT !.buildMetadata = EmptyString] = [b EXCEPT !.buildMetadata = EmptyString]
    /\ a.preRelease # EmptyString
    /\ cmp.equal /\ sat.by[EQ]
    /\ rel.overlaps[<<EQ, EQ>>] /\ ~rel.reported[<<EQ, EQ>>]

----------------------------------------------------------------------------
(* Constraints.Contradicts on a receiver and additional sets (SpecSet) *)

SeqsUpTo(S, n) == UNION {[1 .. k -> S] : k \in 0 .. n}

\* `>= 0.0.1`, `< 0.0.1`, `< 0.1.0`, `!= 0.0.1`
SetConstraints ==
    {NewConstraint(GE, NewVersionValue(0, 0, 1)),
     NewConstraint(LT, NewVersionValue(0, 0, 1)),
     NewConstraint(LT, NewVersionValue(0, 1, 0)),
     NewConstraint(NE, NewVersionValue(0, 0, 1))}

InitSet ==
    /\ set \in SeqsUpTo(SetConstraints, MaxSet)
    /\ additional \in SeqsUpTo(SeqsUpTo(SetConstraints, MaxAdditional), MaxAdditionalSets)
    /\ err = None
    /\ IdleAPI /\ IdleOrder /\ IdlePair /\ IdleParse

CallContradicts ==
    /\ err = None
    /\ err' = Contradicts(set, additional)
    /\ UNCHANGED <<set, additional, apiVars, orderVars, pairVars, parseVars>>

NextSet == CallContradicts

SpecSet == InitSet /\ [][NextSet]_vars

\* The index pairs i < j of 1..n in increasing (i, j) order
IndexPairs(n) ==
    SelectSeq([k \in 1 .. n * n |-> <<((k - 1) \div n) + 1, ((k - 1) % n) + 1>>],
              LAMBDA p : p[1] < p[2])

ExpectedErrs(all) ==
    LET hit(p) == checkContradict(all[p[1]], all[p[2]]) \/ checkContradict(all[p[2]], all[p[1]])
        hits == SelectSeq(IndexPairs(Len(all)), hit)
    IN  [k \in 1 .. Len(hits) |-> ContradictionErr(all[hits[k][1]], all[hits[k][2]])]

\* C3: Contradicts works on the receiver followed by the additional sets in
\* order and returns an error holding one ContradictionErr(element i,
\* element j) for every pair i < j that checkContradict reports in either
\* direction, all of them, in increasing (i, j) order; nil iff there is none;
\* the first ContradictionErr recoverable with errors.As is the first pair.
ContradictsCollectsEveryPairInOrder ==
    err # None =>
        LET expected == ExpectedErrs(set \o Flatten(additional))
        IN  /\ Unwrapped(err) = expected
            /\ (err = NilError) <=> (expected = << >>)
            /\ expected # << >> => As(err) = expected[1]

\* C3 witness: a call that reported several pairs, one of them between the
\* receiver and an additional set.
SeveralPairsAcrossSets ==
    /\ err # None /\ Len(Unwrapped(err)) >= 2
    /\ Len(set) = 2 /\ Len(additional) = 1 /\ Len(additional[1]) = 1
    /\ additional[1][1] # set[1] /\ additional[1][1] # set[2]
    /\ \E k \in 1 .. Len(Unwrapped(err)) :
          /\ Unwrapped(err)[k].c1 = set[2]
          /\ Unwrapped(err)[k].c2 = additional[1][1]

\* The sequence s with the elements at positions i and j exchanged
Swap(s, i, j) == [s EXCEPT ![i] = s[j], ![j] = s[i]]

\* The unordered pairs of constraints an error of Contradicts holds
ReportedPairs(e) ==
    LET errs == Unwrapped(e)
    IN  {{errs[k].c1, errs[k].c2} : k \in 1 .. Len(errs)}

\* C11: Contradicts reports the same set of unordered pairs for a sequence of
\* constraints and for any reordering of it, and returns nil for one exactly
\* when it returns nil for the other.  Every reordering is a product of
\* exchanges of two positions, and the sequences checked are all sequences
\* up to the bound, so the exchanges of two positions cover every permutation.
ContradictsSamePairsInAnyOrder ==
    err # None =>
        LET all == set \o Flatten(additional)
            pairs == ReportedPairs(err)
        IN  \A j \in 2 .. Len(all) : \A i \in 1 .. j - 1 :
                LET reordered == Contradicts(Swap(all, i, j), << >>)
                IN  /\ ReportedPairs(reordered) = pairs
                    /\ (reordered = NilError) <=> (err = NilError)

\* C11 witness: a call on three constraints reported pairs, and the call on
\* the sequence with its ends exchanged reports them in another order.
ReorderedReportsInOtherOrder ==
    /\ err # None /\ err # NilError
    /\ Len(set \o Flatten(additional)) = 3
    /\ LET all == set \o Flatten(additional)
       IN  Unwrapped(Contradicts(Swap(all, 1, 3), << >>)) # Unwrapped(err)

----------------------------------------------------------------------------
(* Parsing a version: the two regular expressions and parseVersion *)

\* The bytes of a Go string.  The regular expressions read runes: a byte
\* above 127, alone or inside a multi-byte rune, belongs to every negated
\* class and to `.`, and to none of the classes that list their members.
Bytes == 0 .. 255
Digits == 48 .. 57                                   \* \d
IdentifierBytes == Digits \cup (65 .. 90) \cup (97 .. 122) \cup {45}   \* [0-9a-zA-Z-]

\* Length of the longest prefix of s made of bytes of S (a greedy S*)
PrefixLen(s, S) ==
    LET stops == {i \in 1 .. Len(s) : s[i] \notin S}
    IN  IF stops = {} THEN Len(s)
        ELSE (CHOOSE i \in stops : \A k \in stops : i <= k) - 1

Drop(s, n) == SubSeq(s, n + 1, Len(s))

\* strings.Split(s, sep) for a one-byte separator
RECURSIVE Split(_, _)
Split(s, sep) ==
    LET n == PrefixLen(s, Bytes \ {sep})
    IN  IF n = Len(s) THEN <<s>>
        ELSE <<SubSeq(s, 1, n)>> \o Split(Drop(s, n + 1), sep)

\* strconv.ParseUint(s, 10, 64): the value, or an error when s is empty,
\* holds a non-digit or is out of range
RECURSIVE DecimalValue(_, _)
DecimalValue(s, acc) ==
    IF s = << >> THEN acc ELSE DecimalValue(Tail(s), acc * 10 + (Head(s) - 48))

ParseUint(s) ==
    IF s = << >> \/ PrefixLen(s, Digits) # Len(s) THEN [ok |-> FALSE, value |-> 0]
    ELSE IF DecimalValue(s, 0) > MaxComp THEN [ok |-> FALSE, value |-> MaxComp]
    ELSE [ok |-> TRUE, value |-> DecimalValue(s, 0)]

NoMatch == [matched |-> FALSE]

\* `(\.(?P<name>\d+))?` at the head of s: the digits taken, "" if the group
\* does not take part
DotNumber(s) ==
    IF Len(s) >= 2 /\ s[1] = 46 /\ s[2] \in Digits
    THEN SubSeq(s, 2, 1 + PrefixLen(Tail(s), Digits))
    ELSE << >>

AfterDotNumber(s) == IF DotNumber(s) = << >> THEN s ELSE Drop(s, 1 + Len(DotNumber(s)))

\* versionRegex.FindStringSubmatch: every quantifier but the leading \D*? is
\* greedy and the tail [^\n]*$ takes whatever is left, so the first
\* (leftmost, greediest) attempt decides.
MatchVersionRegex(s) ==
    LET s1 == Drop(s, PrefixLen(s, Bytes \ Digits))
        major == SubSeq(s1, 1, PrefixLen(s1, Digits))
        s2 == Drop(s1, Len(major))
        minor == DotNumber(s2)
        s3 == AfterDotNumber(s2)
        patch == DotNumber(s3)
        s4 == AfterDotNumber(s3)
        hasPre == s4 # << >> /\ s4[1] = 45
        pre == IF hasPre THEN SubSeq(s4, 2, 1 + PrefixLen(Tail(s4), Bytes \ {43, 10}))
               ELSE << >>
        s5 == IF hasPre THEN Drop(s4, 1 + Len(pre)) ELSE s4
        hasBuild == s5 # << >> /\ s5[1] = 43
        build == IF hasBuild THEN SubSeq(s5, 2, 1 + PrefixLen(Tail(s5), Bytes \ {10}))
                 ELSE << >>
        s6 == IF hasBuild THEN Drop(s5, 1 + Len(build)) ELSE s5
    IN  IF major = << >> \/ PrefixLen(s6, Bytes \ {10}) # Len(s6) THEN NoMatch
        ELSE [matched |-> TRUE, major |-> major, minor |-> minor, patch |-> patch,
              prerelease |-> pre, buildmetadata |-> build]

\* 0|[1-9]\d*
IsNumericIdentifier(d) ==
    /\ d # << >> /\ PrefixLen(d, Digits) = Len(d)
    /\ (d = <<48>> \/ d[1] # 48)

\* 0|[1-9]\d*|\d*[a-zA-Z-][0-9a-zA-Z-]*
IsPreReleaseIdentifier(d) ==
    /\ d # << >> /\ PrefixLen(d, IdentifierBytes) = Len(d)
    /\ (PrefixLen(d, Digits) = Len(d) => IsNumericIdentifier(d))

\* [0-9a-zA-Z-]+
IsBuildIdentifier(d) == d # << >> /\ PrefixLen(d, IdentifierBytes) = Len(d)

IsPreRelease(t) ==
    \A k \in 1 .. Len(Split(t, 46)) : IsPreReleaseIdentifier(Split(t, 46)[k])

IsBuildMetadata(t) ==
    \A k \in 1 .. Len(Split(t, 46)) : IsBuildIdentifier(Split(t, 46)[k])

\* semVerRegex.FindStringSubmatch: anchored at both ends
MatchSemVerRegex(s) ==
    LET major == SubSeq(s, 1, PrefixLen(s, Digits))
        s2 == Drop(s, Len(major))
        minor == DotNumber(s2)
        s3 == AfterDotNumber(s2)
        patch == DotNumber(s3)
        s4 == AfterDotNumber(s3)
        hasPre == s4 # << >> /\ s4[1] = 45
        pre == IF hasPre THEN SubSeq(s4, 2, 1 + PrefixLen(Tail(s4), Bytes \ {43}))
               ELSE << >>
        s5 == IF hasPre THEN Drop(s4, 1 + Len(pre)) ELSE s4
        hasBuild == s5 # << >> /\ s5[1] = 43
        build == IF hasBuild THEN Tail(s5) ELSE << >>
    IN  IF /\ IsNumericIdentifier(major)
           /\ IsNumericIdentifier(minor)
           /\ IsNumericIdentifier(patch)
           /\ (hasPre => IsPreRelease(pre))
           /\ (hasBuild => IsBuildMetadata(build))
           /\ (s5 # << >> => hasBuild)
        THEN [matched |-> TRUE, major |-> major, minor |-> minor, patch |-> patch,
              prerelease |-> pre, buildmetadata |-> build]
        ELSE NoMatch

Failed(h) == [ok |-> FALSE, heap |-> h, ver |-> ZeroVersion, panicked |-> FALSE]

\* parseVersion(r, versionString), given the submatches r found
parseVersion(h, m) ==
    IF ~m.matched THEN Failed(h)
    ELSE LET major == ParseUint(m.major)
             minor == ParseUint(m.minor)
             patch == ParseUint(m.patch)
             mc == IF m.minor = << >> THEN [heap |-> h, ptr |-> Nil] ELSE new(h, minor.value)
             pc == IF m.patch = << >> THEN [heap |-> mc.heap, ptr |-> Nil]
                   ELSE new(mc.heap, patch.value)
         IN  IF ~major.ok THEN Failed(h)
             ELSE IF m.minor # << >> /\ ~minor.ok THEN Failed(h)
             ELSE IF m.patch # << >> /\ ~patch.ok THEN Failed(h)
             ELSE [ok |-> TRUE, heap |-> pc.heap,
                   ver |-> [major |-> major.value, minor |-> mc.ptr, patch |-> pc.ptr,
                            preRelease |-> m.prerelease,
                            buildMetadata |-> m.buildmetadata],
                   panicked |-> FALSE]

ParseVersion(h, version) == parseVersion(h, MatchVersionRegex(version))

ParseSemVer(h, semanticVersion) == parseVersion(h, MatchSemVerRegex(semanticVersion))

\* Version.StrictString(): the string and the error returned
StrictString(v) ==
    LET numbers ==
            FormatUint(v.major) \o
            (IF v.minor # << >> THEN <<46>> \o FormatUint(v.minor[1]) ELSE <<46, 48>>) \o
            (IF v.patch # << >> THEN <<46>> \o FormatUint(v.patch[1]) ELSE <<46, 48>>)
        withPre ==
            IF v.preRelease # EmptyString THEN numbers \o <<45>> \o v.preRelease ELSE numbers
        withBuild ==
            IF v.buildMetadata # EmptyString THEN withPre \o <<43>> \o v.buildMetadata
            ELSE withPre
    IN  IF v.preRelease # EmptyString /\ ~ParseSemVer(<< >>, withPre).ok
        THEN [str |-> EmptyString, err |-> "pre-release label invalid for strict version"]
        ELSE IF v.buildMetadata # EmptyString /\ ~ParseSemVer(<< >>, withBuild).ok
        THEN [str |-> EmptyString, err |-> "build metadata invalid for strict version"]
        ELSE [str |-> withBuild, err |-> "nil"]

----------------------------------------------------------------------------
(* A client of the Version API (SpecAPI) *)

\* Arguments given to the constructors and setters
ConstructorComponents == Uint64
SetterLabels == {<< >>, <<98>>, <<98, 43, 55>>}      \* "", "b", "b+7"
SetterBuilds == {<< >>, <<55>>}          \* "", "7"

\* Strings given to ParseVersion and ParseSemVer
ParseInputs ==
    {<< >>,                                       \* ""
     <<49>>,                                      \* "1"
     <<118, 49, 46, 50>>,                         \* "v1.2"
     <<49, 46, 50, 46, 48>>,                      \* "1.2.0"
     <<49, 46, 46, 50>>,                          \* "1..2"
     <<49, 46, 48, 46, 50, 45, 98>>,              \* "1.0.2-b"
     <<49, 46, 48, 46, 50, 43, 55>>,              \* "1.0.2+7"
     <<48, 46, 49, 46, 48, 45, 98, 43, 55>>,      \* "0.1.0-b+7"
     <<48, 49, 46, 49, 46, 49>>,                  \* "01.1.1"
     <<49, 46, 50, 46, 48, 45, 48, 49>>,          \* "1.2.0-01"
     <<49, 46, 50, 45, 98, 45, 55>>,              \* "1.2-b-7"
     <<49, 46, 49, 45, 98>>,                      \* "1.1-b"
     <<195, 169, 49>>,                            \* "\u00e91" (e acute, then 1)
     <<49, 46, 48, 46, 48, 43, 97, 200, 98>>,     \* "1.0.0+a\xc8b"
     <<49, 46, 50, 10>>}                          \* "1.2\n"

InitAPI ==
    /\ heap = << >> /\ vers = << >> /\ snap = << >> /\ calls = << >>
    /\ strict = None /\ panicked = FALSE /\ recovered = None
    /\ IdleOrder /\ IdlePair /\ IdleSet /\ IdleParse

\* The value of the panic of a nil pointer dereference
RuntimeError ==
    [kind |-> "runtime error: invalid memory address or nil pointer dereference"]

\* panic(value): the call returns nothing and the program stops
Panic(value) ==
    /\ panicked' = TRUE
    /\ recovered' = value
    /\ UNCHANGED <<heap, vers, snap, calls, strict, orderVars, pairVars, setVars, parseVars>>

\* No receiver: the version came from a constructor or a parser
NoReceiver == 0

\* The client keeps the returned Version next to the ones it already holds;
\* a call that panics returns nothing.
Obtain(r, method, receiver) ==
    /\ heap' = r.heap
    /\ panicked' = r.panicked
    /\ recovered' = IF r.panicked THEN RuntimeError ELSE recovered
    /\ vers' = IF r.panicked THEN vers ELSE Append(vers, r.ver)
    /\ snap' = IF r.panicked THEN snap ELSE Append(snap, Observe(r.heap, r.ver))
    /\ calls' = IF r.panicked THEN calls
                ELSE Append(calls, [method |-> method, receiver |-> receiver])
    /\ UNCHANGED <<strict, orderVars, pairVars, setVars, parseVars>>

\* A run starts from one version; every method takes a single receiver, so
\* what happens to versions of different origin is independent.
CanConstruct == vers = << >> /\ ~panicked
CanDerive == vers # << >> /\ Len(vers) < MaxVersions /\ ~panicked

DeclareZeroValue ==
    /\ CanConstruct
    /\ Obtain([heap |-> heap, ver |-> ZeroVersion, panicked |-> FALSE], "Version{}", NoReceiver)

CallNewVersion ==
    /\ CanConstruct
    /\ \E major, minor, patch \in ConstructorComponents :
          Obtain(NewVersion(heap, major, minor, patch), "NewVersion", NoReceiver)

CallNewPreReleaseVersion ==
    /\ CanConstruct
    /\ \E major, minor, patch \in ConstructorComponents : \E preRelease \in SetterLabels :
          Obtain(NewPreReleaseVersion(heap, major, minor, patch, preRelease),
                 "NewPreReleaseVersion", NoReceiver)

CallParseVersion ==
    /\ CanConstruct
    /\ \E version \in ParseInputs :
          Obtain(ParseVersion(heap, version), "ParseVersion", NoReceiver)

CallParseSemVer ==
    /\ CanConstruct
    /\ \E version \in ParseInputs :
          Obtain(ParseSemVer(heap, version), "ParseSemVer", NoReceiver)

\* MustParseVersion: the version of ParseVersion, or a panic with its error
CallMustParseVersion ==
    /\ CanConstruct
    /\ \E version \in ParseInputs :
          IF ParseVersion(heap, version).ok
          THEN Obtain(ParseVersion(heap, version), "MustParseVersion", NoReceiver)
          ELSE Panic([kind |-> "failed to parse version", of |-> version])

\* MustParseSemVer: the version of ParseSemVer, or a panic with its error
CallMustParseSemVer ==
    /\ CanConstruct
    /\ \E version \in ParseInputs :
          IF ParseSemVer(heap, version).ok
          THEN Obtain(ParseSemVer(heap, version), "MustParseSemVer", NoReceiver)
          ELSE Panic([kind |-> "failed to parse semantic version", of |-> version])

\* w := v : a plain copy of the struct, pointers included
CopyStruct ==
    /\ CanDerive
    /\ \E i \in 1 .. Len(vers) :
          Obtain([heap |-> heap, ver |-> vers[i], panicked |-> FALSE], ":=", i)

CallSetPreRelease ==
    /\ CanDerive
    /\ \E i \in 1 .. Len(vers) : \E preRelease \in SetterLabels :
          Obtain(SetPreRelease(heap, vers[i], preRelease), "SetPreRelease", i)

CallSetBuildMetadata ==
    /\ CanDerive
    /\ \E i \in 1 .. Len(vers) : \E buildMetadata \in SetterBuilds :
          Obtain(SetBuildMetadata(heap, vers[i], buildMetadata), "SetBuildMetadata", i)

CallIncrement ==
    /\ CanDerive
    /\ \E i \in 1 .. Len(vers) : Obtain(Increment(heap, vers[i]), "Increment", i)

CallIncrementMajor ==
    /\ CanDerive
    /\ \E i \in 1 .. Len(vers) : Obtain(IncrementMajor(heap, vers[i]), "IncrementMajor", i)

CallIncrementMinor ==
    /\ CanDerive
    /\ \E i \in 1 .. Len(vers) : Obtain(IncrementMinor(heap, vers[i]), "IncrementMinor", i)

CallIncrementPatch ==
    /\ CanDerive
    /\ \E i \in 1 .. Len(vers) : Obtain(IncrementPatch(heap, vers[i]), "IncrementPatch", i)

CallIncrementPessimistic ==
    /\ CanDerive
    /\ \E i \in 1 .. Len(vers) : Obtain(IncrementPessimistic(heap, vers[i]), "IncrementPessimistic", i)

NextAPI ==
    \/ DeclareZeroValue
    \/ CallNewVersion
    \/ CallNewPreReleaseVersion
    \/ CallParseVersion
    \/ CallParseSemVer
    \/ CallMustParseVersion
    \/ CallMustParseSemVer
    \/ CopyStruct
    \/ CallSetPreRelease
    \/ CallSetBuildMetadata
    \/ CallIncrement
    \/ CallIncrementMajor
    \/ CallIncrementMinor
    \/ CallIncrementPatch
    \/ CallIncrementPessimistic

SpecAPI == InitAPI /\ [][NextAPI]_vars

\* C5: in every Version reachable through the public API a present patch
\* implies a present minor.
PatchImpliesMinor ==
    \A i \in 1 .. Len(vers) : vers[i].patch # Nil => vers[i].minor # Nil

\* C5 witness: from a version without minor and patch (such as the parsed
\* "1") a version with a patch was derived.
PatchDerivedFromMajorOnly ==
    /\ Len(vers) >= 2
    /\ vers[1].minor = Nil /\ vers[1].patch = Nil /\ vers[1].major # 0
    /\ \E i \in 2 .. Len(vers) : vers[i].patch # Nil /\ heap[vers[i].patch] # 0

\* C6: whatever is later called on a version, on a plain copy of it or on a
\* version derived from it, the major, minor, patch (value and presence),
\* pre-release and build metadata observed on it stay what they were.
OriginalsUnchanged ==
    \A i \in 1 .. Len(vers) : Observe(heap, vers[i]) = snap[i]

\* C6 witness: IncrementPessimistic was called on a plain copy of a version
\* with a non-zero patch and returned patch 0 and the next minor.
PessimisticOnCopy ==
    /\ Len(vers) = 3 /\ vers[2] = vers[1]
    /\ snap[1].patch # << >> /\ snap[1].patch # <<0>>
    /\ snap[3].patch = <<0>>
    /\ snap[3].minor = <<(snap[1].minor[1] + 1) % Uint64Mod>>
    /\ snap[3].major = snap[1].major

\* The receiver of the call that returned the i-th version, as the client
\* observed it, and the version returned
Receiver(i) == snap[calls[i].receiver]
Returned(i) == snap[i]

ReturnedBy(method) == {i \in 1 .. Len(calls) : calls[i].method = method}

Succ64(x) == (x + 1) % Uint64Mod

SamePresence(v, r) ==
    /\ (r.minor = << >>) <=> (v.minor = << >>)
    /\ (r.patch = << >>) <=> (v.patch = << >>)

NoLabels(r) == r.preRelease = EmptyString /\ r.buildMetadata = EmptyString

\* The components a version has, and their rendering "x", "x.y" or "x.y.z"
Numbers(v) == <<v.major>> \o v.minor \o v.patch

RECURSIVE Dotted(_)
Dotted(ns) ==
    IF Len(ns) = 1 THEN FormatUint(ns[1])
    ELSE Dotted(SubSeq(ns, 1, Len(ns) - 1)) \o <<46>> \o FormatUint(ns[Len(ns)])

\* C16: Increment adds 1 (in uint64) to the patch if there is one, else to
\* the minor if there is one, else to the major; the other components and
\* the presence of minor and patch stay as they are, so that "1" gives "2"
\* and "1.2" gives "1.3" in the rendering of String(); the result has no
\* pre-release and no build metadata.
IncrementBumpsRightmostPresent ==
    \A i \in ReturnedBy("Increment") :
        LET v == Receiver(i)
            r == Returned(i)
        IN  /\ NoLabels(r) /\ SamePresence(v, r)
            /\ IF v.patch # << >>
                   THEN r.patch = <<Succ64(v.patch[1])>> /\ r.minor = v.minor
                        /\ r.major = v.major
               ELSE IF v.minor # << >>
                   THEN r.minor = <<Succ64(v.minor[1])>> /\ r.major = v.major
               ELSE r.major = Succ64(v.major)
            /\ String(r) =
                    Dotted([Numbers(v) EXCEPT ![Len(Numbers(v))] = Succ64(@)])
            /\ String(v) = <<49>> => String(r) = <<50>>
            /\ String(v) = <<49, 46, 49>> => String(r) = <<49, 46, 50>>

\* C16 witness: Increment was called on the parsed "1.1-b" and returned a
\* version rendered "1.2".
IncrementedWithoutBackfill ==
    \E i \in ReturnedBy("Increment") :
        /\ String(Receiver(i)) = <<49, 46, 49, 45, 98>>
        /\ String(Returned(i)) = <<49, 46, 50>>

\* C17: IncrementPessimistic returns the receiver with patch 0 and minor + 1
\* when it has a patch; else with minor a present 0 and major + 1 when it
\* has a minor; else with major + 1 and still no minor and no patch.  The
\* presence of minor and patch stays as it is and the result has no
\* pre-release and no build metadata.
PessimisticResetsAndCarries ==
    \A i \in ReturnedBy("IncrementPessimistic") :
        LET v == Receiver(i)
            r == Returned(i)
        IN  /\ NoLabels(r) /\ SamePresence(v, r)
            /\ IF v.patch # << >>
                   THEN r.patch = <<0>> /\ r.minor = <<Succ64(v.minor[1])>>
                        /\ r.major = v.major
               ELSE IF v.minor # << >>
                   THEN r.minor = <<0>> /\ r.major = Succ64(v.major)
               ELSE r.major = Succ64(v.major)

\* C17 witness: IncrementPessimistic was called on the parsed "1.1-b" and
\* returned the version rendered "2.0".
PessimisticOnMinorOnly ==
    \E i \in ReturnedBy("IncrementPessimistic") :
        /\ String(Receiver(i)) = <<49, 46, 49, 45, 98>>
        /\ String(Returned(i)) = <<50, 46, 48>>

\* C18: IncrementMajor, IncrementMinor and IncrementPatch each add 1 to the
\* component they name, an absent one counting as 0, set every component
\* below it to a present 0 and keep the values of the components above it
\* (an absent minor becomes a present 0 under IncrementPatch); the result
\* has both minor and patch present and neither pre-release nor build
\* metadata.
NamedIncrementsFillBelow ==
    /\ \A i \in ReturnedBy("IncrementMajor") :
          /\ NoLabels(Returned(i))
          /\ Returned(i).major = Succ64(Major(Receiver(i)))
          /\ Returned(i).minor = <<0>> /\ Returned(i).patch = <<0>>
    /\ \A i \in ReturnedBy("IncrementMinor") :
          /\ NoLabels(Returned(i))
          /\ Returned(i).major = Major(Receiver(i))
          /\ Returned(i).minor = <<Succ64(Minor(Receiver(i)))>>
          /\ Returned(i).patch = <<0>>
    /\ \A i \in ReturnedBy("IncrementPatch") :
          /\ NoLabels(Returned(i))
          /\ Returned(i).major = Major(Receiver(i))
          /\ Returned(i).minor = <<Minor(Receiver(i))>>
          /\ Returned(i).patch = <<Succ64(Patch(Receiver(i)))>>

\* C18 witness: IncrementPatch was called on a version without a minor and
\* returned one with minor 0, and IncrementMinor was called on a version
\* with a patch other than 0 and returned one with patch 0.
NamedIncrementsCalled ==
    /\ \E i \in ReturnedBy("IncrementPatch") :
          Receiver(i).minor = << >> /\ Returned(i).minor = <<0>>
    /\ \E i \in ReturnedBy("IncrementMinor") :
          /\ Patch(Receiver(i)) # 0 /\ Minor(Receiver(i)) < MaxComp
          /\ Returned(i).patch = <<0>>

IncrementMethods ==
    {"Increment", "IncrementMajor", "IncrementMinor", "IncrementPatch",
     "IncrementPessimistic"}

\* C19: each of Increment, IncrementMajor, IncrementMinor, IncrementPatch
\* and IncrementPessimistic returns a version strictly greater than its
\* receiver (receiver.Less(result)), over the whole range of the unsigned
\* components.
EveryIncrementIsGreater ==
    \A i \in 1 .. Len(calls) :
        calls[i].method \in IncrementMethods => Less(Receiver(i), Returned(i))

\* C30: no call made on a version obtained through the public interface
\* ends in a runtime panic; in particular IncrementPessimistic, called by
\* the client or by Satisfies on the version of a `~>` constraint, never
\* dereferences an absent minor, whichever of the versions held it is
\* called on.  The only panics are those the Must functions raise with the
\* error of their parser.
NoRuntimePanic ==
    /\ recovered # RuntimeError
    /\ panicked => vers = << >>
    /\ \A i \in 1 .. Len(vers) : ~IncrementPessimistic(heap, vers[i]).panicked

\* C30 witness: IncrementPessimistic has returned for a version whose patch
\* was created by IncrementPatch on a version without minor.
PessimisticOnEveryShape ==
    /\ ~panicked
    /\ \E i, j \in 1 .. Len(vers) :
          /\ calls[i].method = "IncrementPatch"
          /\ Receiver(i).minor = << >>
          /\ calls[j].method = "IncrementPessimistic"
          /\ calls[j].receiver = i


----------------------------------------------------------------------------
(* A client that also renders the versions it holds (SpecRender) *)

CallStrictString ==
    /\ vers # << >> /\ ~panicked
    /\ \E i \in 1 .. Len(vers) :
          strict' = [kind |-> "StrictString", receiver |-> i,
                     returned |-> StrictString(Observe(heap, vers[i]))]
    /\ UNCHANGED <<heap, vers, snap, calls, panicked, recovered, orderVars, pairVars, setVars,
                   parseVars>>

NextRender == NextAPI \/ CallStrictString

SpecRender == InitAPI /\ [][NextRender]_vars

\* major.minor.patch with an absent minor or patch as 0, then "-" and the
\* pre-release if there is one, then "+" and the build metadata if there is
ThreeNumbersAndSuffixes(v) ==
    Dotted(Triple(v))
        \o (IF v.preRelease # EmptyString THEN <<45>> \o v.preRelease ELSE << >>)
        \o (IF v.buildMetadata # EmptyString THEN <<43>> \o v.buildMetadata ELSE << >>)

ValidLabels(v) ==
    /\ v.preRelease # EmptyString => IsPreRelease(v.preRelease)
    /\ v.buildMetadata # EmptyString => IsBuildMetadata(v.buildMetadata)

\* C20: StrictString returns an error and the empty string whenever the
\* pre-release label is not by itself a pre-release of the strict grammar or
\* the build metadata not by itself build metadata of the strict grammar,
\* however the version was obtained, and otherwise returns no error and
\* major.minor.patch (absent ones as 0) followed by the suffixes.
StrictStringRejectsInvalidLabels ==
    strict # None =>
        LET v == snap[strict.receiver]
        IN  IF ValidLabels(v)
            THEN /\ strict.returned.err = "nil"
                 /\ strict.returned.str = ThreeNumbersAndSuffixes(v)
            ELSE /\ strict.returned.err # "nil"
                 /\ strict.returned.str = EmptyString

----------------------------------------------------------------------------
(* Parsing constraints and constraint sets *)

\* unicode.IsSpace, as the UTF-8 encodings of its runes: \t \n \v \f \r and
\* the space, U+0085, U+00A0, U+1680, U+2000 to U+200A, U+2028, U+2029,
\* U+202F, U+205F, U+3000
Whitespace ==
    {<<c>> : c \in {9, 10, 11, 12, 13, 32}}
        \cup {<<194, 133>>, <<194, 160>>, <<225, 154, 128>>}
        \cup {<<226, 128, c>> : c \in (128 .. 138) \cup {168, 169, 175}}
        \cup {<<226, 129, 159>>, <<227, 128, 128>>}

RegexSpace == {9, 10, 12, 13, 32}         \* \s of package regexp

IsPrefix(p, s) == Len(p) <= Len(s) /\ SubSeq(s, 1, Len(p)) = p

IsSuffix(p, s) == Len(p) <= Len(s) /\ SubSeq(s, Len(s) - Len(p) + 1, Len(s)) = p

\* strings.TrimLeftFunc(s, unicode.IsSpace)
RECURSIVE TrimLeftSpace(_)
TrimLeftSpace(s) ==
    IF \E w \in Whitespace : IsPrefix(w, s)
    THEN TrimLeftSpace(Drop(s, Len(CHOOSE w \in Whitespace : IsPrefix(w, s))))
    ELSE s

\* strings.TrimRightFunc(s, unicode.IsSpace)
RECURSIVE TrimRightSpace(_)
TrimRightSpace(s) ==
    IF \E w \in Whitespace : IsSuffix(w, s)
    THEN TrimRightSpace(SubSeq(s, 1, Len(s) - Len(CHOOSE w \in Whitespace : IsSuffix(w, s))))
    ELSE s

\* strings.TrimSpace
TrimSpace(s) == TrimRightSpace(TrimLeftSpace(s))

\* The alternatives of the operator group, in the order the regular
\* expressions list them: != = >= > <= < ~>
OperatorTokens ==
    <<[token |-> <<33, 61>>, operator |-> NE],
      [token |-> <<61>>, operator |-> EQ],
      [token |-> <<62, 61>>, operator |-> GE],
      [token |-> <<62>>, operator |-> GT],
      [token |-> <<60, 61>>, operator |-> LE],
      [token |-> <<60>>, operator |-> LT],
      [token |-> <<126, 62>>, operator |-> GEPessimistic]>>

\* `(!=|=|>=|>|<=|<|~>)?` at the head of s: the first alternative that
\* matches, the empty token when none does.  What follows the group in both
\* expressions takes the bytes of an operator no better than the group does,
\* so the group takes part whenever an alternative matches.
LeadingOperator(s) ==
    LET hits == {k \in 1 .. Len(OperatorTokens) : IsPrefix(OperatorTokens[k].token, s)}
    IN  IF hits = {} THEN [token |-> << >>, operator |-> ""]
        ELSE OperatorTokens[CHOOSE k \in hits : \A j \in hits : k <= j]

\* constraintRegex.FindStringSubmatch: `[^\d\n]*` runs up to the first digit
\* or newline, `(\d+\S*)$` takes the rest
MatchConstraintRegex(s) ==
    LET op == LeadingOperator(s)
        rest == Drop(s, Len(op.token))
        raw == Drop(rest, PrefixLen(rest, Bytes \ (Digits \cup {10})))
    IN  IF raw # << >> /\ raw[1] \in Digits /\ PrefixLen(raw, Bytes \ RegexSpace) = Len(raw)
        THEN [matched |-> TRUE, operator |-> op.operator, version |-> raw]
        ELSE NoMatch

\* strictConstraintRegex.FindStringSubmatch: the semver group is optional
MatchStrictConstraintRegex(s) ==
    LET op == LeadingOperator(s)
        rest == Drop(s, Len(op.token))
        raw == Drop(rest, PrefixLen(rest, RegexSpace))
    IN  IF raw = << >> \/ MatchSemVerRegex(raw).matched
        THEN [matched |-> TRUE, operator |-> op.operator, semver |-> raw]
        ELSE NoMatch

\* Constraint{} : the zero value
ZeroConstraint == [operator |-> "", version |-> Observe(<< >>, ZeroVersion)]

NoConstraint(kind, of) ==
    [ok |-> FALSE, constraint |-> ZeroConstraint, err |-> [kind |-> kind, of |-> of]]

\* ParseConstraint once the expression has matched and the version text has
\* been given to ParseVersion
ParseConstraintVersion(trimmed, m, version) ==
    IF (IF m.operator = "" THEN EQ ELSE m.operator) \notin Operators
    THEN NoConstraint("invalid operator in constraint", trimmed)
    ELSE IF ~version.ok
        THEN NoConstraint("failed to parse version in constraint", m.version)
    ELSE [ok |-> TRUE,
          constraint |-> NewConstraint(IF m.operator = "" THEN EQ ELSE m.operator,
                                       Observe(version.heap, version.ver)),
          err |-> NilError]

\* ParseConstraint from the result m of constraintRegex on the trimmed text
ParseConstraintMatch(trimmed, m) ==
    IF ~m.matched THEN NoConstraint("failed to parse version constraint", trimmed)
    ELSE ParseConstraintVersion(trimmed, m, ParseVersion(<< >>, m.version))

ParseConstraint(verConstraint) ==
    ParseConstraintMatch(TrimSpace(verConstraint),
                         MatchConstraintRegex(TrimSpace(verConstraint)))

\* ParseStrictConstraint once the expression has matched and the semver
\* text has been given to ParseSemVer
ParseStrictConstraintVersion(trimmed, m, version) ==
    IF (IF m.operator = "" THEN EQ ELSE m.operator) \notin Operators
    THEN NoConstraint("invalid operator in strict constraint", trimmed)
    ELSE IF ~version.ok
        THEN NoConstraint("failed to parse semver in strict constraint", m.semver)
    ELSE [ok |-> TRUE,
          constraint |-> NewConstraint(IF m.operator = "" THEN EQ ELSE m.operator,
                                       Observe(version.heap, version.ver)),
          err |-> NilError]

\* ParseStrictConstraint from the result m of strictConstraintRegex on the
\* trimmed text
ParseStrictConstraintMatch(trimmed, m) ==
    IF ~m.matched \/ m.semver = << >>
    THEN NoConstraint("failed to parse strict version constraint", trimmed)
    ELSE ParseStrictConstraintVersion(trimmed, m, ParseSemVer(<< >>, m.semver))

ParseStrictConstraint(verConstraint) ==
    ParseStrictConstraintMatch(TrimSpace(verConstraint),
                               MatchStrictConstraintRegex(TrimSpace(verConstraint)))

\* var result Constraints : the nil slice
NilConstraints == << >>

ParsePiece(strictly, rawConstraint) ==
    IF strictly THEN ParseStrictConstraint(rawConstraint) ELSE ParseConstraint(rawConstraint)

\* A loop that hands back the constraints parsed before the failing piece
RECURSIVE ParseSetKeepsPartial(_, _, _, _)
ParseSetStepKeepsPartial(strictly, versionConstraints, i, result, piece) ==
    IF ~piece.ok
    THEN [ok |-> FALSE, constraints |-> result,
          err |-> [kind |-> IF strictly THEN "failed to parse strict constraint"
                            ELSE "failed to parse constraint",
                   of |-> versionConstraints[i], wraps |-> piece.err]]
    ELSE ParseSetKeepsPartial(strictly, versionConstraints, i + 1,
                              Append(result, piece.constraint))

ParseSetKeepsPartial(strictly, versionConstraints, i, result) ==
    IF i > Len(versionConstraints)
    THEN [ok |-> TRUE, constraints |-> result, err |-> NilError]
    ELSE ParseSetStepKeepsPartial(strictly, versionConstraints, i, result,
                                  ParsePiece(strictly, versionConstraints[i]))

\* The loop of ParseConstraintSet / ParseStrictConstraintSet from piece i on
RECURSIVE ParseSetFrom(_, _, _, _)

\* The body of the loop, given what the single-constraint parser returned
\* for piece i
ParseSetStep(strictly, versionConstraints, i, result, piece) ==
    IF ~piece.ok
    THEN [ok |-> FALSE, constraints |-> NilConstraints,
          err |-> [kind |-> IF strictly THEN "failed to parse strict constraint"
                            ELSE "failed to parse constraint",
                   of |-> versionConstraints[i], wraps |-> piece.err]]
    ELSE ParseSetFrom(strictly, versionConstraints, i + 1,
                      Append(result, piece.constraint))

ParseSetFrom(strictly, versionConstraints, i, result) ==
    IF i > Len(versionConstraints)
    THEN [ok |-> TRUE, constraints |-> result, err |-> NilError]
    ELSE ParseSetStep(strictly, versionConstraints, i, result,
                      ParsePiece(strictly, versionConstraints[i]))

ParseConstraintSet(constraintString) ==
    ParseSetFrom(FALSE, Split(constraintString, 44), 1, NilConstraints)

ParseStrictConstraintSet(constraintString) ==
    ParseSetFrom(TRUE, Split(constraintString, 44), 1, NilConstraints)

----------------------------------------------------------------------------
(* A caller of the constraint parsers (SpecParse) *)

MaxPieces == 2        \* comma-separated pieces of a constraint string

\* The pieces a constraint string is made of
PieceInputs ==
    {<<49>>,                                      \* "1"
     <<62, 61, 49, 46, 50>>,                      \* ">=1.2"
     <<32, 60, 32, 49, 46, 48, 46, 48, 32>>,      \* " < 1.0.0 "
     <<33, 61, 49, 46, 48, 46, 48>>,              \* "!=1.0.0"
     <<126, 62, 49, 46, 48, 46, 48, 45, 98>>,     \* "~>1.0.0-b"
     <<60, 61, 50, 46, 48, 46, 48>>,              \* "<=2.0.0"
     <<62, 49, 46, 48, 46, 48>>,                  \* ">1.0.0"
     <<61, 32, 49, 46, 48, 46, 48>>,              \* "= 1.0.0"
     <<63, 32, 49, 46, 48, 46, 48>>,              \* "? 1.0.0"
     <<49, 46, 48, 32, 50>>,                      \* "1.0 2"
     <<62, 61>>,                                  \* ">="
     <<62, 61, 195, 169, 49, 46, 48>>,            \* ">=\u00e91.0"
     <<194, 160, 49, 46, 48, 46, 48, 194, 133>>,  \* "\u00a01.0.0\u0085"
     << >>}                                       \* ""

RECURSIVE JoinComma(_)
JoinComma(pieces) ==
    IF Len(pieces) = 1 THEN pieces[1]
    ELSE pieces[1] \o <<44>> \o JoinComma(Tail(pieces))

ConstraintStrings ==
    {JoinComma(pieces) : pieces \in SeqsUpTo(PieceInputs, MaxPieces) \ {<< >>}}

InitParse ==
    /\ text \in ConstraintStrings
    /\ parsed = None
    /\ IdleAPI /\ IdleOrder /\ IdlePair /\ IdleSet

Return(method, r) ==
    /\ parsed = None /\ ~panicked
    /\ parsed' = [method |-> method, returned |-> r]
    /\ UNCHANGED <<text, apiVars, orderVars, pairVars, setVars>>

CallParseConstraint == Return("ParseConstraint", ParseConstraint(text))

CallParseStrictConstraint == Return("ParseStrictConstraint", ParseStrictConstraint(text))

CallParseConstraintSet == Return("ParseConstraintSet", ParseConstraintSet(text))

CallParseStrictConstraintSet ==
    Return("ParseStrictConstraintSet", ParseStrictConstraintSet(text))

\* A Must function: what the parser returned without the error, or a panic
\* with that error
MustReturn(method, r, value) ==
    /\ parsed = None /\ ~panicked
    /\ IF r.ok THEN Return(method, value) ELSE Panic(r.err)

CallMustParseConstraint ==
    MustReturn("MustParseConstraint", ParseConstraint(text), ParseConstraint(text).constraint)

CallMustParseConstraintSet ==
    MustReturn("MustParseConstraintSet", ParseConstraintSet(text),
               ParseConstraintSet(text).constraints)

CallMustParseStrictConstraintSet ==
    MustReturn("MustParseStrictConstraintSet", ParseStrictConstraintSet(text),
               ParseStrictConstraintSet(text).constraints)

NextParse ==
    \/ CallParseConstraint
    \/ CallParseStrictConstraint
    \/ CallParseConstraintSet
    \/ CallParseStrictConstraintSet
    \/ CallMustParseConstraint
    \/ CallMustParseConstraintSet
    \/ CallMustParseStrictConstraintSet

SpecParse == InitParse /\ [][NextParse]_vars

\* The text in front of the version: what comes before the first digit,
\* without the surrounding white space, and its first token
Front(s) == TrimSpace(SubSeq(s, 1, PrefixLen(s, Bytes \ Digits)))

FirstToken(s) == SubSeq(s, 1, PrefixLen(s, Bytes \ {9, 10, 11, 12, 13, 32}))

TokenOperators == {<<OperatorTokens[k].token, OperatorTokens[k].operator>> :
                       k \in 1 .. Len(OperatorTokens)}

\* C21: ParseConstraint gives the operator `=` when there is nothing in front
\* of the version, and returns an error when the text in front of the
\* version starts with a token that is not one of the seven operators: a
\* constraint is returned only with the operator written in the input.
UnknownOperatorIsAnError ==
    (parsed # None /\ parsed.method = "ParseConstraint") =>
        LET token == FirstToken(Front(text))
        IN  /\ (token = << >> /\ parsed.returned.ok) =>
                    parsed.returned.constraint.operator = EQ
            /\ (token # << >> /\ token \notin {t[1] : t \in TokenOperators}) =>
                    ~parsed.returned.ok
            /\ (token # << >> /\ parsed.returned.ok) =>
                    <<token, parsed.returned.constraint.operator>> \in TokenOperators

SetMethods == {"ParseConstraintSet", "ParseStrictConstraintSet"}

\* The pieces of the parsed text, each parsed on its own by the
\* single-constraint parser of the called method
PieceResults ==
    LET pieces == Split(text, 44)
    IN  [i \in 1 .. Len(pieces) |->
            ParsePiece(parsed.method = "ParseStrictConstraintSet", pieces[i])]

FailingPieces == {i \in DOMAIN PieceResults : ~PieceResults[i].ok}

FirstFailing == CHOOSE i \in FailingPieces : \A j \in FailingPieces : i <= j

\* C22: ParseConstraintSet and ParseStrictConstraintSet succeed iff every
\* comma-separated piece parses with the single-constraint parser; on success
\* the result holds one constraint per piece in input order; on failure the
\* returned Constraints is nil and the error wraps the error of the first
\* failing piece and names that piece.
SetParsesIffEveryPieceParses ==
    (parsed # None /\ parsed.method \in SetMethods) =>
        /\ parsed.returned.ok <=> FailingPieces = {}
        /\ parsed.returned.ok =>
                /\ parsed.returned.err = NilError
                /\ parsed.returned.constraints =
                       [i \in DOMAIN PieceResults |-> PieceResults[i].constraint]
        /\ ~parsed.returned.ok =>
                /\ parsed.returned.constraints = NilConstraints
                /\ parsed.returned.err.wraps = PieceResults[FirstFailing].err
                /\ parsed.returned.err.of = Split(text, 44)[FirstFailing]

\* A set whose first piece parses and whose second does not was parsed
SecondPieceFailed ==
    /\ parsed # None /\ parsed.method \in SetMethods
    /\ Len(PieceResults) = 2
    /\ FailingPieces = {2}
    /\ ~parsed.returned.ok

====
